---- MODULE Spec2Model ----
(***************************************************************************)
(* Mentor-mentee matching (src/matching/mentor_mentee_matcher.py).         *)
(*                                                                         *)
(* Python values are tagged records (None, bool, int, str); a str is a     *)
(* sequence of one-character strings.  Real numbers are exact rationals.   *)
(* Python lists are sequences indexed from 1 (index k here is Python's     *)
(* k-1).  A dict.get() of an absent key and of a null value both give None.*)
(* A text is the sequence of its words; a JSON value of a resume is a      *)
(* string or a list of JSON values, an object being the list of its values.*)
(***************************************************************************)
EXTENDS Integers, Sequences, FiniteSets, TLC

VARIABLES
    pc,                  \* position in perform_matching / the function under call
    mentors_data,        \* input list of mentor profiles
    mentees_data,        \* input list of mentee profiles
    mentors,             \* list of mentors in play: indices into mentors_data
    mentees,             \* list of mentees in play: indices into mentees_data
    mentor_locations,    \* list of mentor location values
    mentee_locations,    \* list of mentee location values
    location_similarity, \* matrix [mentee][mentor] of compute_location_similarity
    similarity_matrix,   \* matrix [mentee][mentor] handed to the matcher
    mentor_assignments,  \* the matcher's mapping mentor id -> list of assignments
    matches,             \* mapping str(mentor id) -> record, of match_mentees_to_mentors
    result,              \* value returned by perform_matching / printed by main
    all_texts,           \* texts of the mentors, then the mentees, handed to the vectorizer
    cosine,              \* matrix [mentee][mentor] of cosine_similarity
    weights,             \* <<profile_weight, location_weight>> of a call
    parsed_resume,       \* the parsed_resume of a profile
    resume_values,       \* list returned by extract_dict_values
    exit_code            \* exit status of the process; None_ while it runs

vars == <<pc, mentors_data, mentees_data, mentors, mentees, mentor_locations,
          mentee_locations, location_similarity, similarity_matrix, mentor_assignments,
          matches, result, all_texts, cosine, weights, parsed_resume, resume_values,
          exit_code>>

----------------------------------------------------------------------------
(* Bounds of the model *)

MaxMentors == 2
MaxMentees == 2
MaxProfiles == 3
MaxLocTokens == 2
MaxResumeDepth == 4
MaxRootItems == 2
MaxItems == 1

----------------------------------------------------------------------------
(* Python values *)

None_ == [t |-> "none", b |-> FALSE, n |-> 0, s |-> <<>>]
PyBool(x) == [t |-> "bool", b |-> x, n |-> 0, s |-> <<>>]
PyInt(k) == [t |-> "int", b |-> FALSE, n |-> k, s |-> <<>>]
PyStr(cs) == [t |-> "str", b |-> FALSE, n |-> 0, s |-> cs]

\* bool(v)
Truthy(v) ==
    CASE v.t = "none" -> FALSE
      [] v.t = "bool" -> v.b
      [] v.t = "int" -> v.n # 0
      [] v.t = "str" -> v.s # <<>>

\* v or d
PyOr(v, d) == IF Truthy(v) THEN v ELSE d

\* the number a bool or an int stands for in a comparison
PyNum(v) == IF v.t = "bool" THEN (IF v.b THEN 1 ELSE 0) ELSE v.n

\* v is True
IsTrue(v) == v.t = "bool" /\ v.b

\* v == k for an int k (True == 1 and False == 0 in Python)
PyEqInt(v, k) == v.t \in {"bool", "int"} /\ PyNum(v) = k

\* the key a value is as a dict key: True == 1 and False == 0 hash alike
DictKey(v) == IF v.t = "bool" THEN PyInt(PyNum(v)) ELSE v

UpperChars == <<"A","B","C","D","E","F","G","H","I","J","K","L","M",
                "N","O","P","Q","R","S","T","U","V","W","X","Y","Z">>
LowerChars == <<"a","b","c","d","e","f","g","h","i","j","k","l","m",
                "n","o","p","q","r","s","t","u","v","w","x","y","z">>
DigitChars == <<"0","1","2","3","4","5","6","7","8","9">>

LowerChar(c) ==
    IF \E i \in 1..Len(UpperChars) : UpperChars[i] = c
    THEN LowerChars[CHOOSE i \in 1..Len(UpperChars) : UpperChars[i] = c]
    ELSE c

\* str.lower()
Lower(cs) == [i \in 1..Len(cs) |-> LowerChar(cs[i])]

RECURSIVE NatToStr(_)
NatToStr(k) ==
    IF k < 10 THEN <<DigitChars[k + 1]>>
    ELSE NatToStr(k \div 10) \o <<DigitChars[(k % 10) + 1]>>

\* str(v)
Str(v) ==
    CASE v.t = "none" -> <<"N","o","n","e">>
      [] v.t = "bool" -> IF v.b THEN <<"T","r","u","e">> ELSE <<"F","a","l","s","e">>
      [] v.t = "int" -> IF v.n < 0 THEN <<"-">> \o NatToStr(0 - v.n) ELSE NatToStr(v.n)
      [] v.t = "str" -> v.s

----------------------------------------------------------------------------
(* Exact rationals for the float scores *)

RECURSIVE GCD(_, _)
GCD(a, b) == IF b = 0 THEN a ELSE GCD(b, a % b)

Abs(x) == IF x < 0 THEN 0 - x ELSE x

\* n/d in lowest terms, d > 0
Rat(n, d) ==
    LET g == GCD(Abs(n), Abs(d))
        sgn == IF d < 0 THEN 0 - 1 ELSE 1
    IN [num |-> (sgn * n) \div g, den |-> (sgn * d) \div g]

RatGt(x, y) == x.num * y.den > y.num * x.den
RatAdd(x, y) == Rat(x.num * y.den + y.num * x.den, x.den * y.den)
RatMul(x, y) == Rat(x.num * y.num, x.den * y.den)
RatDiv(x, y) == Rat(x.num * y.den, x.den * y.num)
Zero == Rat(0, 1)
One == Rat(1, 1)
Half == Rat(1, 2)

\* the floats that are no numbers: a zero denominator
NaN == [num |-> 0, den |-> 0]
PosInf == [num |-> 1, den |-> 0]
NegInf == [num |-> 0 - 1, den |-> 0]
IsFinite(x) == x.den # 0

----------------------------------------------------------------------------
(* match_mentees_to_mentors *)

\* the mentor passes the capacity gate of the matcher's first loop
MatcherAdmits(mentor) ==
    LET capacity == IF mentor.mentor_capacity.t # "none"
                    THEN mentor.mentor_capacity ELSE PyInt(0)
    IN Truthy(mentor.willing_to_be_mentor) /\ PyNum(capacity) > 0

\* first loop: the keys of mentor_capacities (and of mentor_assignments)
CapacityKeys(ms) == {DictKey(ms[k].id) : k \in {j \in 1..Len(ms) : MatcherAdmits(ms[j])}}

\* the inner loop with >= for >: the last mentee wins a tie
RECURSIVE ScanMentees_LastWins(_, _, _, _, _, _)
ScanMentees_LastWins(M, n_mentees, j, i, best_idx, best_sim) ==
    IF i > n_mentees THEN [idx |-> best_idx, sim |-> best_sim]
    ELSE IF ~RatGt(best_sim, M[i][j])
         THEN ScanMentees_LastWins(M, n_mentees, j, i + 1, i, M[i][j])
         ELSE ScanMentees_LastWins(M, n_mentees, j, i + 1, best_idx, best_sim)

\* inner loop over the mentees for column j, from mentee i on; best_idx 0 is None
RECURSIVE ScanMentees(_, _, _, _, _, _)
ScanMentees(M, n_mentees, j, i, best_idx, best_sim) ==
    IF i > n_mentees THEN [idx |-> best_idx, sim |-> best_sim]
    ELSE IF RatGt(M[i][j], best_sim)
         THEN ScanMentees(M, n_mentees, j, i + 1, i, M[i][j])
         ELSE ScanMentees(M, n_mentees, j, i + 1, best_idx, best_sim)

FindBest(M, n_mentees, j) == ScanMentees(M, n_mentees, j, 1, 0, Rat(0 - 1, 1))

\* the assignment appended for mentor column j, given its best mentee;
\* mentee_idx and mentor_idx record which list elements the entry was built from
Assignment(es, best, j) ==
    [mentee_id |-> PyOr(es[best.idx].student_id, es[best.idx].id),
     similarity_score |-> best.sim,
     mentee_idx |-> best.idx,
     mentor_idx |-> j]

\* second loop, from mentor j on: mentor_assignments after the loop
RECURSIVE SelectLoop(_, _, _, _, _)
SelectLoop(ms, es, M, j, assignments) ==
    IF j > Len(ms) THEN assignments
    ELSE IF DictKey(ms[j].id) \notin DOMAIN assignments
         THEN SelectLoop(ms, es, M, j + 1, assignments)
         ELSE LET best == FindBest(M, Len(es), j)
              IN IF best.idx # 0 /\ RatGt(best.sim, Zero)
                 THEN SelectLoop(ms, es, M, j + 1,
                          [assignments EXCEPT ![DictKey(ms[j].id)] =
                              Append(@, Assignment(es, best, j))])
                 ELSE SelectLoop(ms, es, M, j + 1, assignments)

\* the mentors the third loop writes a record for
Recorded(ms, assignments) ==
    {k \in 1..Len(ms) : /\ DictKey(ms[k].id) \in DOMAIN assignments
                         /\ Len(assignments[DictKey(ms[k].id)]) > 0}

\* third loop: result[str(mentor_id)] = {...}; a later mentor with the same key overwrites
FormatOutput(ms, assignments) ==
    LET rec == Recorded(ms, assignments)
        last(key) == CHOOSE k \in rec : /\ Str(ms[k].id) = key
                                        /\ \A k2 \in rec : Str(ms[k2].id) = key => k2 <= k
    IN [key \in {Str(ms[k].id) : k \in rec} |->
           [mentor_id |-> ms[last(key)].id,
            capacity |-> PyOr(ms[last(key)].mentor_capacity, PyInt(0)),
            assigned_count |-> Len(assignments[DictKey(ms[last(key)].id)]),
            mentees |-> assignments[DictKey(ms[last(key)].id)],
            mentor_idx |-> last(key)]]

\* first and second loop: mentor_assignments when the third loop starts
SelectAssignments(ms, es, M) ==
    SelectLoop(ms, es, M, 1, [id \in CapacityKeys(ms) |-> <<>>])

----------------------------------------------------------------------------
(* normalize_location *)

WhitespaceChars == {" ", "\t", "\n"}
PunctuationChars == {".", ",", ";"}

\* the characters \w of the regular expressions matches
WordChars ==
    {LowerChars[i] : i \in 1..Len(LowerChars)} \cup {UpperChars[i] : i \in 1..Len(UpperChars)}
        \cup {DigitChars[i] : i \in 1..Len(DigitChars)} \cup {"_"}

IsWordChar(c) == c \in WordChars

RECURSIVE LStrip(_)
LStrip(cs) == IF cs # <<>> /\ Head(cs) \in WhitespaceChars THEN LStrip(Tail(cs)) ELSE cs

RECURSIVE RStrip(_)
RStrip(cs) ==
    IF cs # <<>> /\ cs[Len(cs)] \in WhitespaceChars
    THEN RStrip(SubSeq(cs, 1, Len(cs) - 1)) ELSE cs

\* str.strip()
Strip(cs) == RStrip(LStrip(cs))

NotPunctuation(c) == c \notin PunctuationChars

\* re.sub(r'[.,;]', '', s)
RemovePunctuation(cs) == SelectSeq(cs, NotPunctuation)

\* the abbreviations dict, in insertion order
Abbreviations == <<
    <<<<"n","y">>, <<"n","e","w"," ","y","o","r","k">>>>,
    <<<<"c","a">>, <<"c","a","l","i","f","o","r","n","i","a">>>>,
    <<<<"t","x">>, <<"t","e","x","a","s">>>>,
    <<<<"f","l">>, <<"f","l","o","r","i","d","a">>>>,
    <<<<"i","l">>, <<"i","l","l","i","n","o","i","s">>>>,
    <<<<"p","a">>, <<"p","e","n","n","s","y","l","v","a","n","i","a">>>>,
    <<<<"a","z">>, <<"a","r","i","z","o","n","a">>>>,
    <<<<"m","a">>, <<"m","a","s","s","a","c","h","u","s","e","t","t","s">>>>,
    <<<<"t","n">>, <<"t","e","n","n","e","s","s","e","e">>>>,
    <<<<"i","n">>, <<"i","n","d","i","a","n","a">>>>,
    <<<<"m","o">>, <<"m","i","s","s","o","u","r","i">>>>,
    <<<<"m","d">>, <<"m","a","r","y","l","a","n","d">>>>,
    <<<<"w","i">>, <<"w","i","s","c","o","n","s","i","n">>>>,
    <<<<"c","o">>, <<"c","o","l","o","r","a","d","o">>>>,
    <<<<"m","n">>, <<"m","i","n","n","e","s","o","t","a">>>>,
    <<<<"s","c">>, <<"s","o","u","t","h"," ","c","a","r","o","l","i","n","a">>>>,
    <<<<"a","l">>, <<"a","l","a","b","a","m","a">>>>,
    <<<<"l","a">>, <<"l","o","u","i","s","i","a","n","a">>>>,
    <<<<"k","y">>, <<"k","e","n","t","u","c","k","y">>>>,
    <<<<"o","r">>, <<"o","r","e","g","o","n">>>>,
    <<<<"o","k">>, <<"o","k","l","a","h","o","m","a">>>>,
    <<<<"c","t">>, <<"c","o","n","n","e","c","t","i","c","u","t">>>>,
    <<<<"u","t">>, <<"u","t","a","h">>>>,
    <<<<"i","a">>, <<"i","o","w","a">>>>,
    <<<<"n","v">>, <<"n","e","v","a","d","a">>>>,
    <<<<"a","r">>, <<"a","r","k","a","n","s","a","s">>>>,
    <<<<"m","s">>, <<"m","i","s","s","i","s","s","i","p","p","i">>>>,
    <<<<"k","s">>, <<"k","a","n","s","a","s">>>>,
    <<<<"n","m">>, <<"n","e","w"," ","m","e","x","i","c","o">>>>,
    <<<<"n","e">>, <<"n","e","b","r","a","s","k","a">>>>,
    <<<<"w","v">>, <<"w","e","s","t"," ","v","i","r","g","i","n","i","a">>>>,
    <<<<"i","d">>, <<"i","d","a","h","o">>>>,
    <<<<"h","i">>, <<"h","a","w","a","i","i">>>>,
    <<<<"n","h">>, <<"n","e","w"," ","h","a","m","p","s","h","i","r","e">>>>,
    <<<<"m","e">>, <<"m","a","i","n","e">>>>,
    <<<<"m","t">>, <<"m","o","n","t","a","n","a">>>>,
    <<<<"r","i">>, <<"r","h","o","d","e"," ","i","s","l","a","n","d">>>>,
    <<<<"d","e">>, <<"d","e","l","a","w","a","r","e">>>>,
    <<<<"s","d">>, <<"s","o","u","t","h"," ","d","a","k","o","t","a">>>>,
    <<<<"n","d">>, <<"n","o","r","t","h"," ","d","a","k","o","t","a">>>>,
    <<<<"a","k">>, <<"a","l","a","s","k","a">>>>,
    <<<<"d","c">>, <<"w","a","s","h","i","n","g","t","o","n"," ","d","c">>>>,
    <<<<"v","t">>, <<"v","e","r","m","o","n","t">>>>,
    <<<<"w","y">>, <<"w","y","o","m","i","n","g">>>>
>>

\* r'\b' + abbr + r'\b' matches at position i of cs
MatchesAt(cs, abbr, i) ==
    /\ cs[i] = abbr[1]
    /\ i + Len(abbr) - 1 <= Len(cs)
    /\ SubSeq(cs, i, i + Len(abbr) - 1) = abbr
    /\ (i = 1 \/ ~IsWordChar(cs[i - 1]))
    /\ (i + Len(abbr) > Len(cs) \/ ~IsWordChar(cs[i + Len(abbr)]))

\* re.sub(r'\b' + abbr + r'\b', full, cs), scanning from position i
RECURSIVE SubFrom(_, _, _, _)
SubFrom(cs, abbr, full, i) ==
    IF i > Len(cs) THEN <<>>
    ELSE IF MatchesAt(cs, abbr, i)
         THEN full \o SubFrom(cs, abbr, full, i + Len(abbr))
         ELSE <<cs[i]>> \o SubFrom(cs, abbr, full, i + 1)

SubAbbreviation(cs, abbr, full) ==
    IF \E i \in 1..Len(cs) : MatchesAt(cs, abbr, i)
    THEN SubFrom(cs, abbr, full, 1)
    ELSE cs

\* the loop over abbreviations.items(), from entry k on
RECURSIVE ExpandAbbreviations(_, _)
ExpandAbbreviations(cs, k) ==
    IF cs = <<>> \/ k > Len(Abbreviations) THEN cs
    ELSE ExpandAbbreviations(
             SubAbbreviation(cs, Abbreviations[k][1], Abbreviations[k][2]), k + 1)

\* re.sub(r'\s+', ' ', s)
RECURSIVE CollapseWhitespace(_)
CollapseWhitespace(cs) ==
    IF cs = <<>> THEN <<>>
    ELSE IF Head(cs) \in WhitespaceChars
         THEN <<" ">> \o CollapseWhitespace(LStrip(cs))
         ELSE <<Head(cs)>> \o CollapseWhitespace(Tail(cs))

normalize_location(location) ==
    IF ~Truthy(location) \/ location.t # "str" THEN <<>>
    ELSE Strip(CollapseWhitespace(
             ExpandAbbreviations(RemovePunctuation(Strip(Lower(location.s))), 1)))

----------------------------------------------------------------------------
(* Location values *)

SeqsUpTo(S, n) == UNION {[1..k -> S] : k \in 0..n}

\* location values: null, a non-string, and strings of up to MaxLocTokens tokens
LocTokens == {<<"N","Y">>, <<"N","e","w"," ","Y","o","r","k",",">>, <<"y","o","r","k">>,
              <<"o","f">>, <<"T","h","e">>, <<"i","n">>, <<>>}

RECURSIVE JoinTokens(_)
JoinTokens(ts) ==
    IF ts = <<>> THEN <<>>
    ELSE IF Len(ts) = 1 THEN ts[1]
    ELSE ts[1] \o <<" ">> \o JoinTokens(Tail(ts))

LocationPool ==
    {None_, PyInt(5)} \cup {PyStr(JoinTokens(ts)) : ts \in SeqsUpTo(LocTokens, MaxLocTokens)}

\* normalize_location over the location values in use, computed once
NormalizedLocations == [loc \in LocationPool |-> normalize_location(loc)]

Normalized(loc) ==
    IF loc \in DOMAIN NormalizedLocations THEN NormalizedLocations[loc]
    ELSE normalize_location(loc)

----------------------------------------------------------------------------
(* compute_location_similarity *)

\* set(s.split()): the words of s, from position i on, cur being the word under way
RECURSIVE SplitWords(_, _, _)
SplitWords(cs, i, cur) ==
    IF i > Len(cs) THEN (IF cur = <<>> THEN {} ELSE {cur})
    ELSE IF cs[i] \in WhitespaceChars
         THEN (IF cur = <<>> THEN {} ELSE {cur}) \cup SplitWords(cs, i + 1, <<>>)
         ELSE SplitWords(cs, i + 1, Append(cur, cs[i]))

WordSet(normalized) == IF normalized # <<>> THEN SplitWords(normalized, 1, <<>>) ELSE {}

stop_words == {
    <<"t","h","e">>, <<"a">>, <<"a","n">>, <<"a","n","d">>, <<"o","r">>,
    <<"b","u","t">>, <<"i","n">>, <<"o","n">>, <<"a","t">>, <<"t","o">>,
    <<"f","o","r">>, <<"o","f">>, <<"w","i","t","h">>, <<"b","y">>}

\* the partial match left unscaled: jaccard for jaccard * 0.5
PairScore_Unscaled(mentee_normalized, mentor_normalized) ==
    LET mentee_words == WordSet(mentee_normalized)
        mentor_words == WordSet(mentor_normalized)
        common_words == (mentee_words \cap mentor_words) \ stop_words
        union_words == mentee_words \cup mentor_words
    IN IF mentee_normalized = <<>> /\ mentor_normalized = <<>> THEN Zero
       ELSE IF mentee_normalized = mentor_normalized /\ mentee_normalized # <<>> THEN One
       ELSE IF mentee_words # {} /\ mentor_words # {} /\ common_words # {}
            THEN Rat(Cardinality(common_words), Cardinality(union_words))
            ELSE Zero

\* the partial match divided by the mentor's words for the union of both
PairScore_OverMentorWords(mentee_normalized, mentor_normalized) ==
    LET mentee_words == WordSet(mentee_normalized)
        mentor_words == WordSet(mentor_normalized)
        common_words == (mentee_words \cap mentor_words) \ stop_words
    IN IF mentee_normalized = <<>> /\ mentor_normalized = <<>> THEN Zero
       ELSE IF mentee_normalized = mentor_normalized /\ mentee_normalized # <<>> THEN One
       ELSE IF mentee_words # {} /\ mentor_words # {} /\ common_words # {}
            THEN RatMul(Rat(Cardinality(common_words), Cardinality(mentor_words)), Half)
            ELSE Zero

\* the branches of the inner loop body, on the normalized strings
PairScore(mentee_normalized, mentor_normalized) ==
    LET mentee_words == WordSet(mentee_normalized)
        mentor_words == WordSet(mentor_normalized)
        common_words == (mentee_words \cap mentor_words) \ stop_words
        union_words == mentee_words \cup mentor_words
    IN IF mentee_normalized = <<>> /\ mentor_normalized = <<>> THEN Zero
       ELSE IF mentee_normalized = mentor_normalized /\ mentee_normalized # <<>> THEN One
       ELSE IF mentee_words # {} /\ mentor_words # {}
            THEN IF common_words # {}
                 THEN IF union_words # {}
                      THEN RatMul(Rat(Cardinality(common_words), Cardinality(union_words)),
                                  Half)
                      ELSE Zero
                 ELSE Zero
            ELSE Zero

\* normalize_location(loc) if loc else ''
NormalizedOrEmpty(loc) == IF Truthy(loc) THEN Normalized(loc) ELSE <<>>

\* similarity_matrix[i, j] for one mentee location and one mentor location
LocationEntry(mentee_loc, mentor_loc) ==
    PairScore(NormalizedOrEmpty(mentee_loc), NormalizedOrEmpty(mentor_loc))

compute_location_similarity(mentor_locs, mentee_locs) ==
    LET mentee_normalized == [i \in 1..Len(mentee_locs) |-> NormalizedOrEmpty(mentee_locs[i])]
        mentor_normalized == [j \in 1..Len(mentor_locs) |-> NormalizedOrEmpty(mentor_locs[j])]
    IN [i \in 1..Len(mentee_locs) |->
           [j \in 1..Len(mentor_locs) |->
               PairScore(mentee_normalized[i], mentor_normalized[j])]]

----------------------------------------------------------------------------
(* compute_similarity_scores, given the cosine similarities of the vectors *)

profile_weight == Rat(7, 10)
location_weight == Rat(3, 10)

\* np.nan_to_num(m, nan=0.0, posinf=1.0, neginf=0.0)
nan_to_num(m) ==
    [i \in DOMAIN m |->
        [j \in DOMAIN m[i] |->
            IF IsFinite(m[i][j]) THEN m[i][j]
            ELSE IF m[i][j].num > 0 THEN One ELSE Zero]]

\* the combination without the normalization of the weights
compute_similarity_scores_Unnormalized(cosines, mentor_locs, mentee_locs, w_profile, w_location) ==
    LET profile_similarity == nan_to_num(cosines)
    IN IF mentor_locs # <<>> /\ mentee_locs # <<>>
       THEN LET loc_sim == compute_location_similarity(mentor_locs, mentee_locs)
            IN [i \in 1..Len(mentee_locs) |->
                   [j \in 1..Len(mentor_locs) |->
                       RatAdd(RatMul(w_profile, profile_similarity[i][j]),
                              RatMul(w_location, loc_sim[i][j]))]]
       ELSE profile_similarity

compute_similarity_scores(cosines, mentor_locs, mentee_locs, w_profile, w_location) ==
    LET profile_similarity == nan_to_num(cosines)
    IN IF mentor_locs # <<>> /\ mentee_locs # <<>>
       THEN LET loc_sim == compute_location_similarity(mentor_locs, mentee_locs)
                total_weight == RatAdd(w_profile, w_location)
            IN IF RatGt(total_weight, Zero)
               THEN [i \in 1..Len(mentee_locs) |->
                        [j \in 1..Len(mentor_locs) |->
                            RatAdd(RatMul(RatDiv(w_profile, total_weight),
                                          profile_similarity[i][j]),
                                   RatMul(RatDiv(w_location, total_weight),
                                          loc_sim[i][j]))]]
               ELSE profile_similarity
       ELSE profile_similarity

----------------------------------------------------------------------------
(* extract_text_from_profile: the traversal of parsed_resume *)

\* JSON values: a string, a number, an object (the list of its values), a list
JStr(cs) == [k |-> "str", s |-> cs, items |-> <<>>]
JNum == [k |-> "num", s |-> <<>>, items |-> <<>>]
JDict(vs) == [k |-> "dict", s |-> <<>>, items |-> vs]
JList(vs) == [k |-> "list", s |-> <<>>, items |-> vs]

max_depth == 3

\* extract_dict_values(obj, max_depth, current_depth); ExtendValues is the loop
\* over the values of an object or the items of a list, from the k-th on
RECURSIVE extract_dict_values(_, _, _)
RECURSIVE ExtendValues(_, _, _, _)
extract_dict_values(obj, depth_bound, current_depth) ==
    IF current_depth >= depth_bound THEN <<>>
    ELSE IF obj.k \in {"dict", "list"}
         THEN ExtendValues(obj.items, 1, depth_bound, current_depth + 1)
         ELSE IF obj.k = "str" /\ Len(Strip(obj.s)) > 0
              THEN <<Strip(obj.s)>>
              ELSE <<>>

ExtendValues(items, k, depth_bound, depth) ==
    IF k > Len(items) THEN <<>>
    ELSE extract_dict_values(items[k], depth_bound, depth)
             \o ExtendValues(items, k + 1, depth_bound, depth)

----------------------------------------------------------------------------
(* perform_matching *)

\* words the vectorizers drop (stop_words='english'), those the texts here use
english_stop_words == {"the", "and", "of"}

\* texts extract_text_from_profile gives: empty, stop words only, one term
TextValues == {<<>>, <<"the">>, <<"python">>}

dummy_text == <<"dummy", "text">>

\* all_texts after the all-empty test
WithDummyText(texts) ==
    IF \A k \in 1..Len(texts) : texts[k] = <<>>
    THEN [k \in 1..Len(texts) |-> dummy_text]
    ELSE texts

\* the words of a text a vectorizer keeps as terms
Terms(text) == {text[k] : k \in 1..Len(text)} \ english_stop_words

Vocabulary(texts) == UNION {Terms(texts[k]) : k \in 1..Len(texts)}

\* TfidfVectorizer(...).fit_transform(texts) raises ValueError: empty vocabulary
TfidfRaises(texts) == Vocabulary(texts) = {}

\* CountVectorizer(...).fit_transform(texts), same settings, raises the same
CountRaises(texts) == Vocabulary(texts) = {}

\* an exception leaves the vectorization: there is a non-empty text, the TF-IDF
\* fit raises, and the fit of the fallback in the handler raises
VectorizationRaises(texts) ==
    /\ \E k \in 1..Len(texts) : texts[k] # <<>>
    /\ TfidfRaises(texts)
    /\ CountRaises(texts)

\* cosine_similarity of the vectors of two texts: 0 for a vector of zeros, 1 for
\* the same terms, 0 for no common term; Half stands for the values in between
CosineOf(text_a, text_b) ==
    IF Terms(text_a) = {} \/ Terms(text_b) = {} THEN Zero
    ELSE IF Terms(text_a) = Terms(text_b) THEN One
    ELSE IF Terms(text_a) \cap Terms(text_b) = {} THEN Zero
    ELSE Half

\* the mentor filter without its capacity test
MentorPassesFilter_NoCapacity(mentor) == Truthy(mentor.willing_to_be_mentor)

\* the mentor filter of perform_matching
MentorPassesFilter(mentor) ==
    /\ Truthy(mentor.willing_to_be_mentor)
    /\ PyNum(PyOr(mentor.mentor_capacity, PyInt(0))) > 0

\* has_interest / is_paired: True, "true" in any case, or 1
FlagSet(v) ==
    \/ IsTrue(v)
    \/ (v.t = "str" /\ Lower(v.s) = <<"t","r","u","e">>)
    \/ PyEqInt(v, 1)

\* the mentee filter without its mentor_paired test
MenteePassesFilter_IgnorePaired(mentee) == FlagSet(mentee.mentorship_interest)

MenteePassesFilter(mentee) ==
    FlagSet(mentee.mentorship_interest) /\ ~FlagSet(mentee.mentor_paired)

\* the indices, in order, of the profiles the list comprehension keeps
RECURSIVE FilterIndices(_, _)
FilterIndices(keep, k) ==
    IF k > Len(keep) THEN <<>>
    ELSE (IF keep[k] THEN <<k>> ELSE <<>>) \o FilterIndices(keep, k + 1)

\* the profiles a list of indices stands for
Profiles(data, idxs) == [k \in 1..Len(idxs) |-> data[idxs[k]]]

RECURSIVE SumAssigned(_, _)
SumAssigned(m, keys) ==
    IF keys = {} THEN 0
    ELSE LET key == CHOOSE x \in keys : TRUE
         IN Len(m[key].mentees) + SumAssigned(m, keys \ {key})

RECURSIVE SumCapacity(_, _)
SumCapacity(ms, k) ==
    IF k > Len(ms) THEN 0
    ELSE PyNum(PyOr(ms[k].mentor_capacity, PyInt(0))) + SumCapacity(ms, k + 1)

\* round(x, 2): to the nearest hundredth, a tie to the even one
Round2(x) ==
    LET scaled == x.num * 100
        q == scaled \div x.den
        twice == 2 * (scaled % x.den)
        up == twice > x.den \/ (twice = x.den /\ q % 2 = 1)
    IN Rat(IF up THEN q + 1 ELSE q, 100)

Statistics(ms, es, m) ==
    [total_mentors |-> Len(ms),
     total_mentees |-> Len(es),
     total_mentees_assigned |-> SumAssigned(m, DOMAIN m),
     total_capacity |-> SumCapacity(ms, 1),
     utilization_rate |->
         IF SumCapacity(ms, 1) > 0
         THEN Round2(Rat(SumAssigned(m, DOMAIN m) * 100, SumCapacity(ms, 1)))
         ELSE Zero]

NoMatches == [key \in {} |-> None_]
NoAssignments == [id \in {} |-> <<>>]

Filter ==
    /\ pc = "start"
    /\ mentors' = FilterIndices([k \in 1..Len(mentors_data) |->
                                    MentorPassesFilter(mentors_data[k])], 1)
    /\ mentees' = FilterIndices([k \in 1..Len(mentees_data) |->
                                    MenteePassesFilter(mentees_data[k])], 1)
    /\ pc' = "filtered"
    /\ UNCHANGED <<mentors_data, mentees_data, mentor_locations, mentee_locations,
                   location_similarity, similarity_matrix, mentor_assignments,
                   matches, result>>
    /\ UNCHANGED <<all_texts, cosine, weights, parsed_resume, resume_values, exit_code>>

ReturnNoMentors ==
    /\ pc = "filtered"
    /\ mentors = <<>>
    /\ result' = [success |-> FALSE, message |-> "No mentors available for matching",
                  matches |-> NoMatches]
    /\ pc' = "done"
    /\ UNCHANGED <<mentors_data, mentees_data, mentors, mentees, mentor_locations,
                   mentee_locations, location_similarity, similarity_matrix,
                   mentor_assignments, matches>>
    /\ UNCHANGED <<all_texts, cosine, weights, parsed_resume, resume_values, exit_code>>

\* the no-mentees return without the test of the mentors before it
ReturnNoMentees_BeforeMentors ==
    /\ pc = "filtered"
    /\ mentees = <<>>
    /\ result' = [success |-> FALSE, message |-> "No mentees available for matching",
                  matches |-> NoMatches]
    /\ pc' = "done"
    /\ UNCHANGED <<mentors_data, mentees_data, mentors, mentees, mentor_locations,
                   mentee_locations, location_similarity, similarity_matrix,
                   mentor_assignments, matches>>
    /\ UNCHANGED <<all_texts, cosine, weights, parsed_resume, resume_values, exit_code>>

ReturnNoMentees ==
    /\ pc = "filtered"
    /\ mentors # <<>>
    /\ mentees = <<>>
    /\ result' = [success |-> FALSE, message |-> "No mentees available for matching",
                  matches |-> NoMatches]
    /\ pc' = "done"
    /\ UNCHANGED <<mentors_data, mentees_data, mentors, mentees, mentor_locations,
                   mentee_locations, location_similarity, similarity_matrix,
                   mentor_assignments, matches>>
    /\ UNCHANGED <<all_texts, cosine, weights, parsed_resume, resume_values, exit_code>>

\* values of a profile's location field read by the pipeline
PipelineLocations == {None_, PyStr(<<"N","Y">>)}

\* the texts of the profiles in play, mentors first: all of them empty, or none
\* (an empty text among others gives a vector of zeros, as one of stop words does)
TextsInPlay ==
    {texts \in [1..(Len(mentors) + Len(mentees)) -> TextValues] :
        (\E k \in DOMAIN texts : texts[k] = <<>>) => (\A k \in DOMAIN texts : texts[k] = <<>>)}

\* vectorization and compute_similarity_scores; the texts and the location fields
\* of the profiles in play are chosen here, where they are read
Score ==
    /\ pc = "filtered"
    /\ mentors # <<>>
    /\ mentees # <<>>
    /\ \E mlocs \in [1..Len(mentors) -> PipelineLocations],
          elocs \in [1..Len(mentees) -> PipelineLocations],
          texts \in TextsInPlay :
          /\ ~VectorizationRaises(WithDummyText(texts))
          /\ all_texts' = WithDummyText(texts)
          /\ cosine' = [i \in 1..Len(mentees) |->
                           [j \in 1..Len(mentors) |->
                               CosineOf(all_texts'[Len(mentors) + i], all_texts'[j])]]
          /\ mentor_locations' = [j \in 1..Len(mentors) |-> PyOr(mlocs[j], PyStr(<<>>))]
          /\ mentee_locations' = [i \in 1..Len(mentees) |-> PyOr(elocs[i], PyStr(<<>>))]
          /\ location_similarity' =
                 compute_location_similarity(mentor_locations', mentee_locations')
          /\ similarity_matrix' =
                 compute_similarity_scores(cosine', mentor_locations', mentee_locations',
                                           profile_weight, location_weight)
    /\ pc' = "scored"
    /\ UNCHANGED <<mentors_data, mentees_data, mentors, mentees, mentor_assignments,
                   matches, result, weights, parsed_resume, resume_values, exit_code>>

\* the vectorization raises: perform_matching is left by the exception
VectorizeRaises ==
    /\ pc = "filtered"
    /\ mentors # <<>>
    /\ mentees # <<>>
    /\ \E texts \in TextsInPlay :
          /\ VectorizationRaises(WithDummyText(texts))
          /\ all_texts' = WithDummyText(texts)
    /\ pc' = "raised"
    /\ UNCHANGED <<mentors_data, mentees_data, mentors, mentees, mentor_locations,
                   mentee_locations, location_similarity, similarity_matrix,
                   mentor_assignments, matches, result, cosine, weights, parsed_resume,
                   resume_values, exit_code>>

\* match_mentees_to_mentors, first and second loop
Select ==
    /\ pc = "scored"
    /\ mentor_assignments' = SelectAssignments(Profiles(mentors_data, mentors),
                                                Profiles(mentees_data, mentees),
                                                similarity_matrix)
    /\ pc' = "selected"
    /\ UNCHANGED <<mentors_data, mentees_data, mentors, mentees, mentor_locations,
                   mentee_locations, location_similarity, similarity_matrix, matches,
                   result>>
    /\ UNCHANGED <<all_texts, cosine, weights, parsed_resume, resume_values, exit_code>>

\* match_mentees_to_mentors, third loop and return
Format ==
    /\ pc = "selected"
    /\ matches' = FormatOutput(Profiles(mentors_data, mentors), mentor_assignments)
    /\ pc' = "matched"
    /\ UNCHANGED <<mentors_data, mentees_data, mentors, mentees, mentor_locations,
                   mentee_locations, location_similarity, similarity_matrix,
                   mentor_assignments, result>>
    /\ UNCHANGED <<all_texts, cosine, weights, parsed_resume, resume_values, exit_code>>

Return ==
    /\ pc = "matched"
    /\ result' = [success |-> TRUE,
                  statistics |-> Statistics(Profiles(mentors_data, mentors),
                                            Profiles(mentees_data, mentees), matches),
                  matches |-> matches]
    /\ pc' = "done"
    /\ UNCHANGED <<mentors_data, mentees_data, mentors, mentees, mentor_locations,
                   mentee_locations, location_similarity, similarity_matrix,
                   mentor_assignments, matches>>
    /\ UNCHANGED <<all_texts, cosine, weights, parsed_resume, resume_values, exit_code>>

\* main when the input has no mentors and no mentees
MainNoInput ==
    /\ pc = "start"
    /\ mentors_data = <<>>
    /\ mentees_data = <<>>
    /\ result' = [success |-> FALSE, message |-> "No mentors or mentees provided",
                  matches |-> NoMatches]
    /\ pc' = "no_input"
    /\ UNCHANGED <<mentors_data, mentees_data, mentors, mentees, mentor_locations,
                   mentee_locations, location_similarity, similarity_matrix,
                   mentor_assignments, matches, all_texts, cosine, weights,
                   parsed_resume, resume_values, exit_code>>

\* main prints the result and ends
MainPrint ==
    /\ pc \in {"done", "no_input"}
    /\ exit_code' = PyInt(0)
    /\ pc' = "exited"
    /\ UNCHANGED <<mentors_data, mentees_data, mentors, mentees, mentor_locations,
                   mentee_locations, location_similarity, similarity_matrix,
                   mentor_assignments, matches, result, all_texts, cosine, weights,
                   parsed_resume, resume_values>>

\* main's handler of an exception of perform_matching: sys.exit(1)
MainExcept ==
    /\ pc = "raised"
    /\ result' = [success |-> FALSE, message |-> "Error during matching",
                  matches |-> NoMatches]
    /\ exit_code' = PyInt(1)
    /\ pc' = "exited"
    /\ UNCHANGED <<mentors_data, mentees_data, mentors, mentees, mentor_locations,
                   mentee_locations, location_similarity, similarity_matrix,
                   mentor_assignments, matches, all_texts, cosine, weights,
                   parsed_resume, resume_values>>

\* compute_similarity_scores called on its own, given the cosine similarities
ScoreCall ==
    /\ pc = "score_call"
    /\ similarity_matrix' = compute_similarity_scores(cosine, mentor_locations,
                                                      mentee_locations,
                                                      weights[1], weights[2])
    /\ location_similarity' =
           IF mentor_locations # <<>> /\ mentee_locations # <<>>
           THEN compute_location_similarity(mentor_locations, mentee_locations)
           ELSE <<>>
    /\ pc' = "score_done"
    /\ UNCHANGED <<mentors_data, mentees_data, mentors, mentees, mentor_locations,
                   mentee_locations, mentor_assignments, matches, result, all_texts,
                   cosine, weights, parsed_resume, resume_values, exit_code>>

\* the traversal of a parsed_resume object, as extract_text_from_profile calls it
ExtractCall ==
    /\ pc = "resume_call"
    /\ resume_values' = extract_dict_values(parsed_resume, max_depth, 0)
    /\ pc' = "resume_done"
    /\ UNCHANGED <<mentors_data, mentees_data, mentors, mentees, mentor_locations,
                   mentee_locations, location_similarity, similarity_matrix,
                   mentor_assignments, matches, result, all_texts, cosine, weights,
                   parsed_resume, exit_code>>

\* compute_location_similarity called on its own
LocationCall ==
    /\ pc = "loc_call"
    /\ location_similarity' = compute_location_similarity(mentor_locations, mentee_locations)
    /\ pc' = "loc_done"
    /\ UNCHANGED <<mentors_data, mentees_data, mentors, mentees, mentor_locations,
                   mentee_locations, similarity_matrix, mentor_assignments, matches,
                   result>>
    /\ UNCHANGED <<all_texts, cosine, weights, parsed_resume, resume_values, exit_code>>

----------------------------------------------------------------------------
(* Inputs *)

Mentor(id, willing, capacity) ==
    [id |-> id, willing_to_be_mentor |-> willing, mentor_capacity |-> capacity]

Mentee(student_id, id, interest, paired) ==
    [student_id |-> student_id, id |-> id,
     mentorship_interest |-> interest, mentor_paired |-> paired]

MentorIds == {None_, PyInt(1), PyStr(<<"1">>), PyBool(TRUE)}
WillingValues == {PyBool(TRUE), PyBool(FALSE), None_}
CapacityValues == {None_, PyInt(0 - 1), PyInt(0), PyInt(1)}

\* flag values of a mentee: booleans, null, strings, integers
FlagValues == {PyBool(TRUE), PyBool(FALSE), None_, PyStr(<<"T","r","u","E">>),
               PyStr(<<"y","e","s">>), PyInt(1), PyInt(0)}

AllMentors ==
    {Mentor(id, w, c) : id \in MentorIds, w \in WillingValues, c \in CapacityValues}

\* mentors that differ in id only, all willing and with capacity
WillingMentors == {Mentor(id, PyBool(TRUE), PyInt(1)) : id \in {PyInt(1), PyInt(2)}}

\* mentors for the matcher called on its own
MatcherMentors ==
    {Mentor(id, w, c) : id \in MentorIds, w \in {PyBool(TRUE), PyBool(FALSE)},
                        c \in {PyInt(0), PyInt(3)}}

BooleanMentees ==
    {Mentee(None_, PyInt(10), PyBool(i), PyBool(p)) : i \in BOOLEAN, p \in BOOLEAN}

AllMentees ==
    {Mentee(None_, PyInt(10), i, p) : i \in FlagValues, p \in FlagValues}

MatcherMentees ==
    {Mentee(sid, PyInt(10), PyBool(TRUE), PyBool(FALSE)) : sid \in {None_, PyInt(7)}}

\* scores of a similarity matrix handed to the matcher
ScoreValues == {Rat(0 - 1, 1), Zero, Half, One}

Inputs(MentorSet, MenteeSet) ==
    {in \in SeqsUpTo(MentorSet, MaxMentors) \X SeqsUpTo(MenteeSet, MaxMentees) :
        Len(in[1]) + Len(in[2]) <= MaxProfiles}

\* nothing vectorized, no call of the other functions, the process running
IdleCalls ==
    /\ all_texts = <<>>
    /\ cosine = <<>>
    /\ weights = <<profile_weight, location_weight>>
    /\ parsed_resume = None_
    /\ resume_values = <<>>
    /\ exit_code = None_

Idle ==
    /\ IdleCalls
    /\ mentors = <<>>
    /\ mentees = <<>>
    /\ mentor_locations = <<>>
    /\ mentee_locations = <<>>
    /\ location_similarity = <<>>
    /\ similarity_matrix = <<>>
    /\ mentor_assignments = NoAssignments
    /\ matches = NoMatches
    /\ result = None_

\* perform_matching on lists of mentors and mentees
InitPipeline(MentorSet, MenteeSet) ==
    /\ \E in \in Inputs(MentorSet, MenteeSet) :
          mentors_data = in[1] /\ mentees_data = in[2]
    /\ pc = "start"
    /\ Idle

Init == InitPipeline(AllMentors, BooleanMentees)

InitMentees == InitPipeline(WillingMentors, AllMentees)

\* match_mentees_to_mentors on unfiltered lists and any matrix of their shape
InitMatch ==
    /\ \E in \in Inputs(MatcherMentors, MatcherMentees) :
          /\ mentors_data = in[1]
          /\ mentees_data = in[2]
          /\ mentors = [k \in 1..Len(in[1]) |-> k]
          /\ mentees = [k \in 1..Len(in[2]) |-> k]
          /\ similarity_matrix \in [1..Len(in[2]) -> [1..Len(in[1]) -> ScoreValues]]
    /\ pc = "scored"
    /\ IdleCalls
    /\ mentor_locations = <<>>
    /\ mentee_locations = <<>>
    /\ location_similarity = <<>>
    /\ mentor_assignments = NoAssignments
    /\ matches = NoMatches
    /\ result = None_

\* compute_location_similarity on the same two locations as mentors and as mentees
InitLoc ==
    /\ \E a \in LocationPool, b \in LocationPool :
          mentor_locations = <<a, b>> /\ mentee_locations = <<a, b>>
    /\ pc = "loc_call"
    /\ IdleCalls
    /\ mentors_data = <<>>
    /\ mentees_data = <<>>
    /\ mentors = <<>>
    /\ mentees = <<>>
    /\ location_similarity = <<>>
    /\ similarity_matrix = <<>>
    /\ mentor_assignments = NoAssignments
    /\ matches = NoMatches
    /\ result = None_

\* values cosine_similarity is taken to give, those nan_to_num replaces included
RawCosines == {NaN, PosInf, NegInf, Half, One}

\* weights of a call: zero, a default, and one greater than 1
WeightValues == {Zero, location_weight, Rat(2, 1)}

ScoreLocations == {PyStr(<<"N","Y">>), PyStr(<<"y","o","r","k">>)}

\* the location lists of a call for n profiles: not supplied, or one value each
LocationLists(n) == {<<>>} \cup [1..n -> ScoreLocations]

\* compute_similarity_scores on vectors of n_mentees mentees and n_mentors mentors
InitScore ==
    /\ \E n_mentors \in 1..MaxMentors, n_mentees \in 1..MaxMentees :
          /\ n_mentors + n_mentees <= MaxProfiles
          /\ cosine \in [1..n_mentees -> [1..n_mentors -> RawCosines]]
          /\ mentor_locations \in LocationLists(n_mentors)
          /\ mentee_locations \in LocationLists(n_mentees)
    /\ weights \in WeightValues \X WeightValues
    /\ pc = "score_call"
    /\ mentors_data = <<>>
    /\ mentees_data = <<>>
    /\ mentors = <<>>
    /\ mentees = <<>>
    /\ location_similarity = <<>>
    /\ similarity_matrix = <<>>
    /\ mentor_assignments = NoAssignments
    /\ matches = NoMatches
    /\ result = None_
    /\ all_texts = <<>>
    /\ parsed_resume = None_
    /\ resume_values = <<>>
    /\ exit_code = None_

\* leaves of a resume: strings, one to strip, one blank, one empty; a number
JsonLeaves == {JStr(<<"a">>), JStr(<<" ","b"," ">>), JStr(<<" ">>), JStr(<<>>), JNum}

\* JSON values nested at most `depth` levels deep
RECURSIVE JsonValues(_)
JsonValues(depth) ==
    IF depth = 0 THEN JsonLeaves
    ELSE JsonLeaves \cup
         {JDict(vs) : vs \in SeqsUpTo(JsonValues(depth - 1), MaxItems)} \cup
         {JList(vs) : vs \in SeqsUpTo(JsonValues(depth - 1), MaxItems)}

\* parsed_resume objects with leaves down to depth MaxResumeDepth
Resumes == {JDict(vs) : vs \in SeqsUpTo(JsonValues(MaxResumeDepth - 1), MaxRootItems)}

InitResume ==
    /\ parsed_resume \in Resumes
    /\ pc = "resume_call"
    /\ resume_values = <<>>
    /\ mentors_data = <<>>
    /\ mentees_data = <<>>
    /\ mentors = <<>>
    /\ mentees = <<>>
    /\ mentor_locations = <<>>
    /\ mentee_locations = <<>>
    /\ location_similarity = <<>>
    /\ similarity_matrix = <<>>
    /\ mentor_assignments = NoAssignments
    /\ matches = NoMatches
    /\ result = None_
    /\ all_texts = <<>>
    /\ cosine = <<>>
    /\ weights = <<profile_weight, location_weight>>
    /\ exit_code = None_

Next ==
    \/ MainNoInput
    \/ Filter
    \/ ReturnNoMentors
    \/ ReturnNoMentees
    \/ Score
    \/ VectorizeRaises
    \/ Select
    \/ Format
    \/ Return
    \/ MainPrint
    \/ MainExcept

NextMatch == Select \/ Format

NextLoc == LocationCall

NextScore == ScoreCall

NextResume == ExtractCall

Spec == Init /\ [][Next]_vars

SpecMentees == InitMentees /\ [][Next]_vars

SpecMatch == InitMatch /\ [][NextMatch]_vars

SpecLoc == InitLoc /\ [][NextLoc]_vars

SpecScore == InitScore /\ [][NextScore]_vars

SpecResume == InitResume /\ [][NextResume]_vars

----------------------------------------------------------------------------
(* Vocabulary of the properties *)

\* the profile of the j-th mentor, the i-th mentee, in play
MentorAt(j) == mentors_data[mentors[j]]
MenteeAt(i) == mentees_data[mentees[i]]

\* willing_to_be_mentor falsy, or mentor_capacity absent, null or <= 0
IneligibleMentor(m) ==
    \/ ~Truthy(m.willing_to_be_mentor)
    \/ m.mentor_capacity.t = "none"
    \/ PyNum(m.mentor_capacity) <= 0

\* boolean true, the string "true" in any letter case, or the integer 1
TruthyFlag(v) ==
    \/ v = PyBool(TRUE)
    \/ /\ v.t = "str"
       /\ Len(v.s) = 4
       /\ v.s[1] \in {"t", "T"}
       /\ v.s[2] \in {"r", "R"}
       /\ v.s[3] \in {"u", "U"}
       /\ v.s[4] \in {"e", "E"}
    \/ v = PyInt(1)

\* the maximum of column j of the similarity matrix (there is at least one mentee)
ColumnMax(j) ==
    CHOOSE x \in {similarity_matrix[i][j] : i \in 1..Len(mentees)} :
        \A i \in 1..Len(mentees) : ~RatGt(similarity_matrix[i][j], x)

\* the smallest row whose entry in column j is the maximum of the column
FirstRowOfMax(j) ==
    CHOOSE i \in 1..Len(mentees) :
        /\ similarity_matrix[i][j] = ColumnMax(j)
        /\ \A i2 \in 1..(i - 1) : similarity_matrix[i2][j] # ColumnMax(j)

HasPositiveBest(j) == mentees # <<>> /\ RatGt(ColumnMax(j), Zero)

\* the assignments of every record of a matches mapping, as a set
RecordedEntries(m) ==
    UNION {{m[key].mentees[x] : x \in 1..Len(m[key].mentees)} : key \in DOMAIN m}

\* normalized strings and words shared after stop-word removal, of entry [i, j]
MenteeNorm(i) == Normalized(mentee_locations[i])
MentorNorm(j) == Normalized(mentor_locations[j])
SharedWords(i, j) == (WordSet(MenteeNorm(i)) \cap WordSet(MentorNorm(j))) \ stop_words
ExactMatch(i, j) == MenteeNorm(i) = MentorNorm(j) /\ MenteeNorm(i) # <<>>
LocationPairs == (1..Len(mentee_locations)) \X (1..Len(mentor_locations))

----------------------------------------------------------------------------
(* Properties *)

C2_PairedMenteeNeverAssigned ==
    /\ pc # "start" =>
          \A k \in 1..Len(mentees_data) :
              (\E i \in 1..Len(mentees) : mentees[i] = k)
                  <=> (/\ TruthyFlag(mentees_data[k].mentorship_interest)
                       /\ ~TruthyFlag(mentees_data[k].mentor_paired))
    /\ pc = "done" =>
          \A e \in RecordedEntries(result.matches) :
              ~TruthyFlag(MenteeAt(e.mentee_idx).mentor_paired)

\* C2 witness: a result with an assignment, on an input with an interested mentee
\* whose mentor_paired is the string "true" in mixed case
C2_Witness ==
    /\ pc = "done"
    /\ RecordedEntries(result.matches) # {}
    /\ \E k \in 1..Len(mentees_data) :
          /\ TruthyFlag(mentees_data[k].mentorship_interest)
          /\ mentees_data[k].mentor_paired.t = "str"
          /\ TruthyFlag(mentees_data[k].mentor_paired)

\* C3: every record returned by match_mentees_to_mentors holds at most one mentee
\* and has an assigned_count of 0 or 1.
C3_AtMostOneMenteePerRecord ==
    pc = "matched" =>
        \A key \in DOMAIN matches :
            Len(matches[key].mentees) <= 1 /\ matches[key].assigned_count \in {0, 1}

\* C4: for an eligible mentor at column j with a positive best score, exactly one
\* assignment is selected for the column: the mentee at the smallest row holding
\* the column's maximum, with that maximum as similarity_score; and every
\* assignment of the returned mapping is such a selection for its column.
C4_FirstHighestScoreWins ==
    /\ pc \in {"selected", "matched"} =>
          \A j \in 1..Len(mentors) :
              (~IneligibleMentor(MentorAt(j)) /\ HasPositiveBest(j)) =>
                  LET list == mentor_assignments[DictKey(MentorAt(j).id)]
                      own == {x \in 1..Len(list) : list[x].mentor_idx = j}
                  IN /\ Cardinality(own) = 1
                     /\ \A x \in own : /\ list[x].mentee_idx = FirstRowOfMax(j)
                                       /\ list[x].similarity_score = ColumnMax(j)
    /\ pc = "matched" =>
          \A e \in RecordedEntries(matches) :
              /\ e.mentee_idx = FirstRowOfMax(e.mentor_idx)
              /\ e.similarity_score = ColumnMax(e.mentor_idx)

\* C4 witness: the first two mentees tie at the positive maximum of an eligible
\* mentor's column and the returned assignment names the first
C4_Witness ==
    /\ pc = "matched"
    /\ Len(mentees) >= 2
    /\ \E j \in 1..Len(mentors) :
          /\ ~IneligibleMentor(MentorAt(j))
          /\ similarity_matrix[1][j] = similarity_matrix[2][j]
          /\ similarity_matrix[1][j] = ColumnMax(j)
          /\ RatGt(ColumnMax(j), Zero)
          /\ \E e \in RecordedEntries(matches) : e.mentor_idx = j /\ e.mentee_idx = 1

\* C5: an eligible mentor has a record in the returned mapping iff the best score
\* of its column is greater than 0 (with a best score of 0, or no mentee, it has
\* none), and no record has an empty `mentees` list.
C5_KeyIffPositiveBest ==
    pc = "matched" =>
        /\ \A j \in 1..Len(mentors) :
              ~IneligibleMentor(MentorAt(j)) =>
                  /\ HasPositiveBest(j) => Str(MentorAt(j).id) \in DOMAIN matches
                  /\ (\E key \in DOMAIN matches : matches[key].mentor_idx = j)
                         => HasPositiveBest(j)
        /\ \A key \in DOMAIN matches : matches[key].mentees # <<>>

\* C6: when two eligible mentors with distinct ids have their positive best score
\* against the same mentee, each of the two has a record of its own (a record
\* with its mentor_id) that lists that mentee.
C6_BothRecordsListSharedMentee ==
    pc = "matched" =>
        \A j1 \in 1..Len(mentors), j2 \in 1..Len(mentors) :
            (/\ ~IneligibleMentor(MentorAt(j1))
             /\ ~IneligibleMentor(MentorAt(j2))
             /\ MentorAt(j1).id # MentorAt(j2).id
             /\ HasPositiveBest(j1)
             /\ HasPositiveBest(j2)
             /\ FirstRowOfMax(j1) = FirstRowOfMax(j2))
            => \E key \in DOMAIN matches :
                   /\ matches[key].mentor_id = MentorAt(j1).id
                   /\ \E x \in 1..Len(matches[key].mentees) :
                          matches[key].mentees[x].mentee_idx = FirstRowOfMax(j1)

\* C7: the entry for the mentee location "NY" and the mentor location
\* "New York, NY" is 1.0.
C7_NYEqualsNewYorkNY ==
    pc = "loc_done" =>
        \A p \in LocationPairs :
            (/\ mentee_locations[p[1]] = PyStr(<<"N","Y">>)
             /\ mentor_locations[p[2]] =
                    PyStr(<<"N","e","w"," ","Y","o","r","k",","," ","N","Y">>))
            => location_similarity[p[1]][p[2]] = One

\* C8 as stated: an entry is 1.0 iff the normalized strings are equal and
\* non-empty; 0.0 iff a normalized string is empty or no word is shared after
\* stop-word removal; otherwise it lies in (0, 0.5].
C8_ScoreClassesAsStated ==
    pc = "loc_done" =>
        \A p \in LocationPairs :
            LET score == location_similarity[p[1]][p[2]]
            IN /\ score = One <=> ExactMatch(p[1], p[2])
               /\ score = Zero <=> (\/ MenteeNorm(p[1]) = <<>>
                                    \/ MentorNorm(p[2]) = <<>>
                                    \/ SharedWords(p[1], p[2]) = {})
               /\ score \notin {One, Zero} => RatGt(score, Zero) /\ ~RatGt(score, Half)

\* C8 amended: an entry is 1.0 iff the normalized strings are equal and non-empty;
\* 0.0 iff they are not and a normalized string is empty or no word is shared
\* after stop-word removal; otherwise it lies in (0, 0.5].
C8_ScoreClasses ==
    pc = "loc_done" =>
        \A p \in LocationPairs :
            LET score == location_similarity[p[1]][p[2]]
            IN /\ score = One <=> ExactMatch(p[1], p[2])
               /\ score = Zero <=> (/\ ~ExactMatch(p[1], p[2])
                                    /\ (\/ MenteeNorm(p[1]) = <<>>
                                        \/ MentorNorm(p[2]) = <<>>
                                        \/ SharedWords(p[1], p[2]) = {}))
               /\ score \notin {One, Zero} => RatGt(score, Zero) /\ ~RatGt(score, Half)

\* C8 witness: two different location values whose normalized strings are equal,
\* non-empty and made of stop words only, scored 1.0; and a partial match
C8_Witness ==
    /\ pc = "loc_done"
    /\ mentee_locations[1] # mentor_locations[2]
    /\ ExactMatch(1, 2)
    /\ SharedWords(1, 2) = {}
    /\ location_similarity[1][2] = One
    /\ location_similarity[2][1] = One

\* C9: for non-empty, unequal normalized locations that share a word after
\* stop-word removal, the entry is 0.5 * |A \cap B| / |A \cup B| over the word
\* sets A and B as they are before stop-word removal.
C9_JaccardOverOriginalSets ==
    pc = "loc_done" =>
        \A p \in LocationPairs :
            LET A == WordSet(MenteeNorm(p[1]))
                B == WordSet(MentorNorm(p[2]))
            IN (/\ MenteeNorm(p[1]) # <<>>
                /\ MentorNorm(p[2]) # <<>>
                /\ MenteeNorm(p[1]) # MentorNorm(p[2])
                /\ SharedWords(p[1], p[2]) # {})
               => location_similarity[p[1]][p[2]] =
                      RatMul(Half, Rat(Cardinality(A \cap B), Cardinality(A \cup B)))

\* C10: the entry for a as mentee location and b as mentor location equals the
\* entry for b as mentee location and a as mentor location.
C10_LocationSimilaritySymmetric ==
    pc = "loc_done" =>
        \A p \in LocationPairs, q \in LocationPairs :
            (/\ mentee_locations[p[1]] = mentor_locations[q[2]]
             /\ mentor_locations[p[2]] = mentee_locations[q[1]])
            => location_similarity[p[1]][p[2]] = location_similarity[q[1]][q[2]]

\* C10 witness: two locations with word sets of different sizes and a partial match
C10_Witness ==
    /\ pc = "loc_done"
    /\ Cardinality(WordSet(MenteeNorm(1))) # Cardinality(WordSet(MenteeNorm(2)))
    /\ RatGt(location_similarity[1][2], Zero)
    /\ RatGt(One, location_similarity[1][2])
    /\ location_similarity[2][1] = location_similarity[1][2]

\* C11: with an eligible mentor and an eligible mentee, no vectorization (texts
\* all empty, or without any term) leaves perform_matching by an exception: the
\* run ends with a `success: true` result and the exit code 0.
C11_DegenerateVectorizationRecovered ==
    /\ pc # "raised"
    /\ (pc = "exited" /\ mentors # <<>> /\ mentees # <<>>)
           => (result.success /\ exit_code = PyInt(0))

\* no mentor, no mentee, of the input is eligible
NoEligibleMentor == \A k \in 1..Len(mentors_data) : IneligibleMentor(mentors_data[k])
NoEligibleMentee ==
    \A k \in 1..Len(mentees_data) :
        ~(/\ TruthyFlag(mentees_data[k].mentorship_interest)
          /\ ~TruthyFlag(mentees_data[k].mentor_paired))

\* C12: when no mentor or no mentee of the input is eligible, perform_matching
\* returns without matching a result of success false, an empty `matches`, no
\* `statistics` and a message, the one about mentors whenever no mentor is
\* eligible; the process then ends with the exit code 0.
C12_EmptyFilterIsNormalReturn ==
    /\ (pc = "done" /\ (NoEligibleMentor \/ NoEligibleMentee)) =>
          /\ result.success = FALSE
          /\ result.matches = NoMatches
          /\ DOMAIN result = {"success", "message", "matches"}
          /\ result.message = IF NoEligibleMentor
                              THEN "No mentors available for matching"
                              ELSE "No mentees available for matching"
          /\ similarity_matrix = <<>>
          /\ mentor_assignments = NoAssignments
    /\ (pc = "exited" /\ (NoEligibleMentor \/ NoEligibleMentee)) =>
          /\ exit_code = PyInt(0)
          /\ result.success = FALSE
          /\ result.matches = NoMatches
          /\ "statistics" \notin DOMAIN result

\* C12 witness: every mentor of the input is willing with mentor_capacity 0, an
\* eligible mentee is there, and the run has ended
C12_Witness ==
    /\ pc = "exited"
    /\ mentors_data # <<>>
    /\ \A k \in 1..Len(mentors_data) :
          /\ Truthy(mentors_data[k].willing_to_be_mentor)
          /\ mentors_data[k].mentor_capacity = PyInt(0)
    /\ ~NoEligibleMentee
    /\ result.message = "No mentors available for matching"
    /\ exit_code = PyInt(0)

\* the profile similarity of entry [i, j]: the cosine, NaN and -inf as 0, +inf as 1
ProfileSim(i, j) ==
    IF cosine[i][j] \in {NaN, NegInf} THEN Zero
    ELSE IF cosine[i][j] = PosInf THEN One
    ELSE cosine[i][j]

\* (w_profile * profileSim + w_location * locationSim) / (w_profile + w_location)
ConvexCombination(i, j) ==
    RatDiv(RatAdd(RatMul(weights[1], ProfileSim(i, j)),
                  RatMul(weights[2], location_similarity[i][j])),
           RatAdd(weights[1], weights[2]))

LocationsSupplied == mentor_locations # <<>> /\ mentee_locations # <<>>

\* C13: for non-negative weights with a positive sum, every entry returned by
\* compute_similarity_scores is a number in [0, 1]; it is the convex combination
\* of the profile similarity (NaN as 0.0, infinities clamped) and the location
\* similarity when both location lists are there, the profile similarity if not.
C13_CombinedScoreInUnitInterval ==
    (pc = "score_done" /\ RatGt(RatAdd(weights[1], weights[2]), Zero)) =>
        \A i \in DOMAIN cosine : \A j \in DOMAIN cosine[i] :
            LET entry == similarity_matrix[i][j]
            IN /\ IsFinite(entry)
               /\ ~RatGt(Zero, entry)
               /\ ~RatGt(entry, One)
               /\ entry = IF LocationsSupplied THEN ConvexCombination(i, j)
                          ELSE ProfileSim(i, j)

\* C13 witness: weights that do not sum to 1, a NaN and an infinite cosine, both
\* location lists, and an entry strictly between 0 and 1
C13_Witness ==
    /\ pc = "score_done"
    /\ LocationsSupplied
    /\ weights = <<Rat(2, 1), location_weight>>
    /\ \E i \in DOMAIN cosine : \E j \in DOMAIN cosine[i] : cosine[i][j] = NaN
    /\ \E i \in DOMAIN cosine : \E j \in DOMAIN cosine[i] :
          /\ cosine[i][j] = PosInf
          /\ RatGt(similarity_matrix[i][j], Zero)
          /\ RatGt(One, similarity_matrix[i][j])

\* the non-blank string leaves, stripped, at a depth in lo..hi beneath the root,
\* of a value that is itself at `depth`; StringLeavesOf goes through its items
RECURSIVE StringLeaves(_, _, _, _)
RECURSIVE StringLeavesOf(_, _, _, _, _)
StringLeaves(obj, depth, lo, hi) ==
    IF obj.k \in {"dict", "list"} THEN StringLeavesOf(obj.items, 1, depth + 1, lo, hi)
    ELSE IF obj.k = "str" /\ Strip(obj.s) # <<>> /\ depth >= lo /\ depth <= hi
         THEN <<Strip(obj.s)>>
         ELSE <<>>

StringLeavesOf(items, k, depth, lo, hi) ==
    IF k > Len(items) THEN <<>>
    ELSE StringLeaves(items[k], depth, lo, hi) \o StringLeavesOf(items, k + 1, depth, lo, hi)

Occurrences(seq, x) == Cardinality({k \in 1..Len(seq) : seq[k] = x})

\* C14: the traversal of a parsed_resume object gives each non-empty string leaf
\* at depth 1 to 3 beneath the root, as often as it is there, and nothing else:
\* no leaf that is not a string, no string leaf deeper than 3.
C14_LeavesToDepthThree ==
    pc = "resume_done" =>
        LET expected == StringLeaves(parsed_resume, 0, 1, 3)
        IN \A x \in {resume_values[k] : k \in 1..Len(resume_values)}
                  \cup {expected[k] : k \in 1..Len(expected)} :
               Occurrences(resume_values, x) = Occurrences(expected, x)

\* C15: on every success result the statistics count the mentors in play, and
\* total_mentees_assigned, the sum of the lengths of the `mentees` lists, is at
\* most total_mentors; when every mentor in play has a positive integer
\* capacity it is at most total_capacity and utilization_rate is at most 100.
C15_AssignedWithinMentorsAndCapacity ==
    (pc \in {"done", "exited"} /\ result.success) =>
        LET st == result.statistics
        IN /\ st.total_mentors = Len(mentors)
           /\ st.total_mentees_assigned = SumAssigned(result.matches, DOMAIN result.matches)
           /\ st.total_mentees_assigned <= st.total_mentors
           /\ (\A j \in 1..Len(mentors) :
                   /\ MentorAt(j).mentor_capacity.t = "int"
                   /\ MentorAt(j).mentor_capacity.n > 0)
                  => /\ st.total_mentees_assigned <= st.total_capacity
                     /\ ~RatGt(st.utilization_rate, Rat(100, 1))

====
